---- MODULE Spec2Model ----
(***************************************************************************)
(* Checklist manager: the structural mutation engine of                    *)
(* services/checklistService.ts and the two App components that drive it.  *)
(*                                                                         *)
(* A string is a sequence of one-character strings, so that toLowerCase,   *)
(* trim and includes are computed character by character.  An item is a    *)
(* record [id, text, completed]; a category is [category, items]; a        *)
(* checklist is a sequence of categories.                                  *)
(***************************************************************************)
EXTENDS Integers, Sequences, FiniteSets, TLC

VARIABLES
    categories,   \* the current checklist (Category[]): App's categories / checklistData
    nextId,       \* the ids crypto.randomUUID() has handed out so far, plus one
    last,         \* the last operation applied: its arguments, input and result
    app,          \* which App component runs: "local" (localStorage) or "remote" (saveChecklist)
    userInput,    \* App's userInput
    isLoading,    \* App's isLoading
    isInitializing, \* the remote App's isInitializing
    error,        \* App's error: "null" or the kind of message shown
    modalState,   \* App's modalState, its onConfirm closure as the data it captured
    sub,          \* the submission awaiting the classifier or the generation service
    saves,        \* the saveChecklist calls not yet settled (remote App)
    stored,       \* the durable store: localStorage or what saveChecklist persisted
    submitSnap,   \* checklistData as captured by the memoized handleSubmitInput (remote App)
    ideal,        \* the checklist obtained by applying each handled mutation to the current value
    saveFailed,   \* whether some save has failed so far
    events,       \* how many user events and engine callbacks the App has handled
    form          \* InputForm: isRecording, isMicButtonPressedRef, the recognition engine

engineVars == <<categories, nextId, last>>
appVars == <<app, userInput, isLoading, isInitializing, error, modalState, sub, saves,
             stored, submitSnap, ideal, saveFailed, events, form>>
vars == <<engineVars, appVars>>

----------------------------------------------------------------------------
(* Bounds of the model *)

\* Number of ids crypto.randomUUID() hands out in one run of the engine.
MaxIds == 3

\* Number of items of each argument of a single mergeCategories call.
MaxMergeItems == 2

\* Number of ids handed out in one run of an App.
AppMaxIds == 2

\* Number of saveChecklist calls outstanding at a time.
MaxPending == 2

\* Number of user events (typing, submitting, clicking, dropping) an App handles
\* in one run; replies of the services are not counted
MaxEvents == 5

\* Number of items of the checklist a single engine call is made on.
MaxCallItems == 3

\* Number of items of a checklist written to localStorage.
MaxStoreItems == 2

\* Number of ids handed out in one run of merges and additions.
MaxNameIds == 4

----------------------------------------------------------------------------
(* Strings *)

Uncategorized == <<"U","n","c","a","t","e","g","o","r","i","z","e","d">>
uncategorized == <<"u","n","c","a","t","e","g","o","r","i","z","e","d">>
Veg           == <<"V","e","g">>
vegSp         == <<"v","e","g"," ">>
Egg           == <<"e","g","g">>
EggSp         == <<"E","g","g"," ">>
Eggs          == <<"e","g","g","s">>
UncatSp       == <<"U","n","c","a","t","e","g","o","r","i","z","e","d"," ">>

\* String.prototype.toLowerCase on one character of the alphabet in use
LowerChar(c) ==
    CASE c = "U" -> "u"
      [] c = "V" -> "v"
      [] c = "E" -> "e"
      [] OTHER   -> c

ToLowerCase(s) == [i \in 1..Len(s) |-> LowerChar(s[i])]

\* String.prototype.trim: drops leading and trailing white space
Trim(s) ==
    LET solid == {i \in 1..Len(s) : s[i] # " "}
    IN  IF solid = {} THEN <<>>
        ELSE SubSeq(s, CHOOSE i \in solid : \A j \in solid : i <= j,
                       CHOOSE i \in solid : \A j \in solid : j <= i)

Norm(s) == Trim(ToLowerCase(s))

----------------------------------------------------------------------------
(* Sequence helpers standing for Array.prototype methods *)

\* Array.prototype.map
Map(f(_), s) == [i \in 1..Len(s) |-> f(s[i])]

\* Array.prototype.findIndex, 1-based; 0 when nothing matches
FindIndex(s, P(_)) ==
    IF \E i \in 1..Len(s) : P(s[i])
    THEN CHOOSE i \in 1..Len(s) : P(s[i]) /\ \A j \in 1..(i-1) : ~P(s[j])
    ELSE 0

\* Array.prototype.includes
Includes(s, x) == \E i \in 1..Len(s) : s[i] = x

\* a sequence without its i-th element
Without(s, i) == SubSeq(s, 1, i - 1) \o SubSeq(s, i + 1, Len(s))

RECURSIVE SumLen(_)
SumLen(cs) == IF cs = <<>> THEN 0 ELSE Len(Head(cs).items) + SumLen(Tail(cs))

\* total number of items of a checklist
ItemCount(cs) == SumLen(cs)

RECURSIVE Flatten(_)
\* all items of a checklist, category by category
Flatten(cs) == IF cs = <<>> THEN <<>> ELSE Head(cs).items \o Flatten(Tail(cs))

NonEmptyCat(c) == Len(c.items) > 0

----------------------------------------------------------------------------
(* services/checklistService.ts *)

\* JSON.parse(JSON.stringify(categories)): a structural copy, field by field
DeepCopy(cs) ==
    [i \in 1..Len(cs) |->
        [category |-> cs[i].category,
         items    |-> [k \in 1..Len(cs[i].items) |->
                          [id        |-> cs[i].items[k].id,
                           text      |-> cs[i].items[k].text,
                           completed |-> cs[i].items[k].completed]]]]

\* the items addItems pushes: ids firstId, firstId+1, ... are fresh
NewItems(newItems, firstId) ==
    [k \in 1..Len(newItems) |->
        [id |-> firstId + k - 1, text |-> newItems[k], completed |-> FALSE]]

\* addItems looking for a category named exactly 'Uncategorized'
addItems_ExactName(cs, newItems, firstId) ==
    LET updated == DeepCopy(cs)
        IsUncat(c) == c.category = Uncategorized
        found   == FindIndex(updated, IsUncat)
        withCat == IF found = 0
                   THEN Append(updated, [category |-> Uncategorized, items |-> <<>>])
                   ELSE updated
        target  == IF found = 0 THEN Len(withCat) ELSE found
    IN  IF Len(newItems) = 0 THEN updated
        ELSE [withCat EXCEPT ![target].items = @ \o NewItems(newItems, firstId)]

\* addItems pushing only the texts no item of the target category has yet
addItems_SkipsDuplicates(cs, newItems, firstId) ==
    LET updated == DeepCopy(cs)
        IsUncat(c) == ToLowerCase(c.category) = uncategorized
        found   == FindIndex(updated, IsUncat)
        withCat == IF found = 0
                   THEN Append(updated, [category |-> Uncategorized, items |-> <<>>])
                   ELSE updated
        target  == IF found = 0 THEN Len(withCat) ELSE found
        IsNew(item) == \A k \in 1..Len(withCat[target].items) :
                           withCat[target].items[k].text # item.text
    IN  IF Len(newItems) = 0 THEN updated
        ELSE [withCat EXCEPT ![target].items =
                                 @ \o SelectSeq(NewItems(newItems, firstId), IsNew)]

addItems(cs, newItems, firstId) ==
    LET updated == DeepCopy(cs)
        IsUncat(c) == ToLowerCase(c.category) = uncategorized
        found   == FindIndex(updated, IsUncat)
        withCat == IF found = 0
                   THEN Append(updated, [category |-> Uncategorized, items |-> <<>>])
                   ELSE updated
        target  == IF found = 0 THEN Len(withCat) ELSE found
    IN  IF Len(newItems) = 0 THEN updated
        ELSE [withCat EXCEPT ![target].items = @ \o NewItems(newItems, firstId)]

removeItems(cs, itemsToRemove) ==
    LET lowered == Map(Norm, itemsToRemove)
        Keep(item) == ~Includes(lowered, Norm(item.text))
        Filtered(c) == [c EXCEPT !.items = SelectSeq(c.items, Keep)]
    IN  IF Len(itemsToRemove) = 0 THEN cs
        ELSE SelectSeq(Map(Filtered, cs), NonEmptyCat)

\* toggleItem marking the item completed instead of flipping it
toggleItem_SetsCompleted(cs, categoryId, itemId) ==
    LET Flip(item) == IF item.id = itemId
                      THEN [item EXCEPT !.completed = TRUE]
                      ELSE item
        Upd(c) == IF c.category = categoryId
                  THEN [c EXCEPT !.items = Map(Flip, c.items)]
                  ELSE c
    IN  Map(Upd, cs)

toggleItem(cs, categoryId, itemId) ==
    LET Flip(item) == IF item.id = itemId
                      THEN [item EXCEPT !.completed = ~item.completed]
                      ELSE item
        Upd(c) == IF c.category = categoryId
                  THEN [c EXCEPT !.items = Map(Flip, c.items)]
                  ELSE c
    IN  Map(Upd, cs)

\* moveItem without its final filter of emptied categories
moveItem_KeepsEmptied(cs, itemId, sourceCategoryId, destCategoryId) ==
    LET IsSrc(c)  == c.category = sourceCategoryId
        IsDst(c)  == c.category = destCategoryId
        IsIt(i)   == i.id = itemId
        NotIt(i)  == i.id # itemId
        src       == FindIndex(cs, IsSrc)
        dst       == FindIndex(cs, IsDst)
        itm       == IF src = 0 THEN 0 ELSE FindIndex(cs[src].items, IsIt)
        Upd(c)    == IF IsSrc(c) THEN [c EXCEPT !.items = SelectSeq(c.items, NotIt)]
                     ELSE IF IsDst(c)
                          THEN [c EXCEPT !.items = Append(c.items, cs[src].items[itm])]
                          ELSE c
    IN  IF sourceCategoryId = destCategoryId THEN cs
        ELSE IF src = 0 \/ dst = 0 \/ itm = 0 THEN cs
        ELSE Map(Upd, cs)

moveItem(cs, itemId, sourceCategoryId, destCategoryId) ==
    LET IsSrc(c)  == c.category = sourceCategoryId
        IsDst(c)  == c.category = destCategoryId
        IsIt(i)   == i.id = itemId
        NotIt(i)  == i.id # itemId
        src       == FindIndex(cs, IsSrc)
        dst       == FindIndex(cs, IsDst)
        itm       == IF src = 0 THEN 0 ELSE FindIndex(cs[src].items, IsIt)
        Upd(c)    == IF IsSrc(c) THEN [c EXCEPT !.items = SelectSeq(c.items, NotIt)]
                     ELSE IF IsDst(c)
                          THEN [c EXCEPT !.items = Append(c.items, cs[src].items[itm])]
                          ELSE c
    IN  IF sourceCategoryId = destCategoryId THEN cs
        ELSE IF src = 0 \/ dst = 0 \/ itm = 0 THEN cs
        ELSE SelectSeq(Map(Upd, cs), NonEmptyCat)

\* deleteItem without its final filter of emptied categories
deleteItem_KeepsEmptied(cs, categoryId, itemId) ==
    LET NotIt(i) == i.id # itemId
        Upd(c) == IF c.category = categoryId
                  THEN [c EXCEPT !.items = SelectSeq(c.items, NotIt)]
                  ELSE c
    IN  Map(Upd, cs)

\* deleteItem filtering the id out of every category, whatever its name
deleteItem_AnyCategory(cs, categoryId, itemId) ==
    LET NotIt(i) == i.id # itemId
        Upd(c) == [c EXCEPT !.items = SelectSeq(c.items, NotIt)]
    IN  SelectSeq(Map(Upd, cs), NonEmptyCat)

deleteItem(cs, categoryId, itemId) ==
    LET NotIt(i) == i.id # itemId
        Upd(c) == IF c.category = categoryId
                  THEN [c EXCEPT !.items = SelectSeq(c.items, NotIt)]
                  ELSE c
    IN  SelectSeq(Map(Upd, cs), NonEmptyCat)

deleteCategory(cs, categoryId) ==
    LET Other(c) == c.category # categoryId
    IN  SelectSeq(cs, Other)

\* editItem trimming the new text
editItem_Trims(cs, categoryId, itemId, newText) ==
    LET Edit(item) == IF item.id = itemId THEN [item EXCEPT !.text = Trim(newText)] ELSE item
        Upd(c) == IF c.category = categoryId
                  THEN [c EXCEPT !.items = Map(Edit, c.items)]
                  ELSE c
    IN  Map(Upd, cs)

editItem(cs, categoryId, itemId, newText) ==
    LET Edit(item) == IF item.id = itemId THEN [item EXCEPT !.text = newText] ELSE item
        Upd(c) == IF c.category = categoryId
                  THEN [c EXCEPT !.items = Map(Edit, c.items)]
                  ELSE c
    IN  Map(Upd, cs)

\* MergeStep appending every incoming item, with no duplicate test
MergeStep_PushesAll(upd, inc, j) ==
    LET newCategory == inc[j]
        Matches(c)  == Norm(c.category) = Norm(newCategory.category)
        idx         == FindIndex(upd, Matches)
        pushed      == newCategory.items
        r           == upd[idx].ref
    IN  IF idx > 0
        THEN [upd |-> [upd EXCEPT ![idx].items = @ \o pushed],
              inc |-> IF r > 0 THEN [inc EXCEPT ![r].items = @ \o pushed] ELSE inc]
        ELSE [upd |-> Append(upd, [category |-> newCategory.category,
                                   items    |-> newCategory.items,
                                   ref      |-> j]),
              inc |-> inc]

\* MergeStep with unshift in place of push: new items go in front
MergeStep_Unshifts(upd, inc, j) ==
    LET newCategory == inc[j]
        Matches(c)  == Norm(c.category) = Norm(newCategory.category)
        idx         == FindIndex(upd, Matches)
        existingItemTexts == {Norm(upd[idx].items[k].text) : k \in 1..Len(upd[idx].items)}
        IsNew(item) == Norm(item.text) \notin existingItemTexts
        pushed      == SelectSeq(newCategory.items, IsNew)
        r           == upd[idx].ref
    IN  IF idx > 0
        THEN [upd |-> [upd EXCEPT ![idx].items = pushed \o @],
              inc |-> IF r > 0 THEN [inc EXCEPT ![r].items = pushed \o @] ELSE inc]
        ELSE [upd |-> Append(upd, [category |-> newCategory.category,
                                   items    |-> newCategory.items,
                                   ref      |-> j]),
              inc |-> inc]

\* one incoming category of mergeCategories' forEach.  upd is updatedCategories,
\* each entry tagged with ref: 0 for a copy made by JSON.parse(JSON.stringify()),
\* j when the entry IS the object incoming[j] (pushed by reference at line 143);
\* inc is the incoming array as it stands, so a push into an entry with ref j
\* is a push into incoming[j].items.
MergeStep(upd, inc, j) ==
    LET newCategory == inc[j]
        Matches(c)  == Norm(c.category) = Norm(newCategory.category)
        idx         == FindIndex(upd, Matches)
        existingItemTexts == {Norm(upd[idx].items[k].text) : k \in 1..Len(upd[idx].items)}
        IsNew(item) == Norm(item.text) \notin existingItemTexts
        pushed      == SelectSeq(newCategory.items, IsNew)
        r           == upd[idx].ref
    IN  IF idx > 0
        THEN [upd |-> [upd EXCEPT ![idx].items = @ \o pushed],
              inc |-> IF r > 0 THEN [inc EXCEPT ![r].items = @ \o pushed] ELSE inc]
        ELSE [upd |-> Append(upd, [category |-> newCategory.category,
                                   items    |-> newCategory.items,
                                   ref      |-> j]),
              inc |-> inc]

RECURSIVE MergeLoop(_, _, _)
MergeLoop(upd, inc, j) ==
    IF j > Len(inc) THEN [upd |-> upd, inc |-> inc]
    ELSE LET st == MergeStep(upd, inc, j)
         IN  MergeLoop(st.upd, st.inc, j + 1)

Untag(upd) == [i \in 1..Len(upd) |-> [category |-> upd[i].category, items |-> upd[i].items]]

\* mergeCategories with the heap made explicit: the returned checklist, the
\* incoming argument as the call leaves it, and whether the returned array is
\* the incoming array itself (line 123)
MergeCall(existing, incoming) ==
    LET copy == DeepCopy(existing)
        tagged == [i \in 1..Len(copy) |->
                      [category |-> copy[i].category, items |-> copy[i].items, ref |-> 0]]
        fin == MergeLoop(tagged, incoming, 1)
    IN  IF Len(existing) = 0
        THEN [result |-> incoming, incoming |-> incoming, sameArray |-> TRUE]
        ELSE [result |-> Untag(fin.upd), incoming |-> fin.inc, sameArray |-> FALSE]

mergeCategories(existing, incoming) == MergeCall(existing, incoming).result

----------------------------------------------------------------------------
(* services/geminiService.ts: what generateChecklistFromText builds from the *)
(* model's parsed reply, a sequence of [category, items] with string items   *)

RECURSIVE RawCount(_)
RawCount(raw) == IF raw = <<>> THEN 0 ELSE Len(Head(raw).items) + RawCount(Tail(raw))

Structured(raw, firstId) ==
    LET Usable(cat) == cat.category # <<>> /\ Len(cat.items) > 0
        kept == SelectSeq(raw, Usable)
    IN  [i \in 1..Len(kept) |->
            [category |-> kept[i].category,
             items    |-> NewItems(kept[i].items, firstId + RawCount(SubSeq(kept, 1, i - 1)))]]

----------------------------------------------------------------------------
(* The mutation engine applied to one checklist, operation after operation, *)
(* with arbitrary arguments                                                 *)

CatNames == {Veg, Uncategorized}
Texts    == {Egg, EggSp}

\* ids an operation may be called with: every id handed out, and one that is not
Ids == 1..nextId

TextSeqs == {<<>>} \cup {<<t>> : t \in Texts} \cup {<<t, u>> : t \in Texts, u \in Texts}

\* replies of the model: up to two categories, the items of each a text sequence
RawCats    == [category : CatNames, items : TextSeqs]
RawReplies == {<<c>> : c \in RawCats} \cup {<<c, d>> : c \in RawCats, d \in RawCats}

NoOp == [op |-> "none", before |-> <<>>, after |-> <<>>, incoming |-> <<>>,
         incomingAfter |-> <<>>, sameArray |-> FALSE,
         path |-> "none", clean |-> FALSE, intent |-> "none", reply |-> <<>>,
         unchanged |-> FALSE, restored |-> FALSE, noItems |-> FALSE, kept |-> TRUE,
         command |-> [threw |-> FALSE, value |-> [type |-> "undefined"]],
         args |-> [cat |-> <<>>, id |-> 0, dest |-> <<>>, texts |-> <<>>]]

NoModal == [isOpen |-> FALSE, kind |-> "none", cat |-> <<>>, id |-> 0, items |-> <<>>,
            snap |-> <<>>]
\* a submission in flight: the stage it waits at, its trimmed input, the intent
\* the classifier gave it, and the outcome of the model call it waits for
NoSub   == [stage |-> "idle", input |-> <<>>, intent |-> "none",
            response |-> [kind |-> "none"]]

\* InputForm at rest: not recording, the mic button up, the recognition engine
\* idle; submits counts the requestSubmit calls since the last accepted press
NoForm  == [isRecording |-> FALSE, pressed |-> FALSE, recognition |-> "idle", submits |-> 0]

\* the App variables while the engine is exercised on its own
AppIdle ==
    /\ app = "none"
    /\ userInput = <<>>
    /\ isLoading = FALSE
    /\ isInitializing = FALSE
    /\ error = "null"
    /\ modalState = NoModal
    /\ sub = <<>>
    /\ saves = <<>>
    /\ stored = <<>>
    /\ submitSnap = <<>>
    /\ ideal = <<>>
    /\ saveFailed = FALSE
    /\ events = 0
    /\ form = NoForm

Init ==
    /\ categories = <<>>
    /\ nextId = 1
    /\ last = NoOp
    /\ AppIdle

Apply(op, result, rec) ==
    /\ categories' = result
    /\ last' = [rec EXCEPT !.op = op, !.before = categories, !.after = result]
    /\ UNCHANGED appVars

AddItems ==
    \E texts \in TextSeqs :
        /\ nextId + Len(texts) - 1 <= MaxIds
        /\ Apply("addItems", addItems(categories, texts, nextId), NoOp)
        /\ nextId' = nextId + Len(texts)

RemoveItems ==
    \E phrases \in TextSeqs :
        /\ Apply("removeItems", removeItems(categories, phrases), NoOp)
        /\ UNCHANGED nextId

ToggleItem ==
    \E c \in CatNames, i \in Ids :
        /\ Apply("toggleItem", toggleItem(categories, c, i), NoOp)
        /\ UNCHANGED nextId

MoveItem ==
    \E i \in Ids, s \in CatNames, d \in CatNames :
        /\ Apply("moveItem", moveItem(categories, i, s, d), NoOp)
        /\ UNCHANGED nextId

EditItem ==
    \E c \in CatNames, i \in Ids, t \in Texts :
        /\ Apply("editItem", editItem(categories, c, i, t), NoOp)
        /\ UNCHANGED nextId

DeleteItem ==
    \E c \in CatNames, i \in Ids :
        /\ Apply("deleteItem", deleteItem(categories, c, i), NoOp)
        /\ UNCHANGED nextId

DeleteCategory ==
    \E c \in CatNames :
        /\ Apply("deleteCategory", deleteCategory(categories, c), NoOp)
        /\ UNCHANGED nextId

\* mergeCategories with a freshly generated checklist
MergeGenerated ==
    \E raw \in RawReplies :
        LET incoming == Structured(raw, nextId)
            call     == MergeCall(categories, incoming)
        IN  /\ nextId + RawCount(raw) - 1 <= MaxIds
            /\ Apply("mergeCategories", call.result,
                     [NoOp EXCEPT !.incoming = incoming, !.incomingAfter = call.incoming,
                                  !.sameArray = call.sameArray])
            /\ nextId' = nextId + RawCount(raw)

Next ==
    \/ AddItems
    \/ RemoveItems
    \/ ToggleItem
    \/ MoveItem
    \/ EditItem
    \/ DeleteItem
    \/ DeleteCategory
    \/ MergeGenerated

Spec == Init /\ [][Next]_vars

----------------------------------------------------------------------------
(* mergeCategories called once: existing is a checklist as the generation   *)
(* service builds it, possibly with its first item toggled; incoming is a   *)
(* freshly generated checklist, or an identical copy of existing            *)

MergeNames == {Veg, vegSp, Uncategorized}
MergeTexts == {Egg, EggSp, Eggs}

MergeTextSeqs == {<<t>> : t \in MergeTexts} \cup {<<t, u>> : t \in MergeTexts, u \in MergeTexts}
MergeRawCats  == [category : MergeNames, items : MergeTextSeqs]
MergeReplies  ==
    {r \in {<<c>> : c \in MergeRawCats} \cup {<<c, d>> : c \in MergeRawCats, d \in MergeRawCats} :
        RawCount(r) <= MaxMergeItems}

FirstToggled(cs) == toggleItem(cs, cs[1].category, cs[1].items[1].id)

InitMerge ==
    /\ categories \in {<<>>} \cup {Structured(r, 1) : r \in MergeReplies}
                             \cup {FirstToggled(Structured(r, 1)) : r \in MergeReplies}
    /\ nextId = ItemCount(categories) + 1
    /\ last = NoOp
    /\ AppIdle

MergeWith(op, incoming) ==
    LET call == MergeCall(categories, incoming)
    IN  /\ last.op = "none"
        /\ Apply(op, call.result,
                 [NoOp EXCEPT !.incoming = incoming, !.incomingAfter = call.incoming,
                              !.sameArray = call.sameArray])
        /\ nextId' = nextId + ItemCount(incoming)

MergeFresh == \E raw \in MergeReplies : MergeWith("mergeCategories", Structured(raw, nextId))

MergeCopy == /\ MergeWith("mergeCopy", DeepCopy(categories))
             /\ Len(categories) > 0

NextMerge == MergeFresh \/ MergeCopy

SpecMerge == InitMerge /\ [][NextMerge]_vars

----------------------------------------------------------------------------
(* The remote App (unnamed/part_001): the computations its handlers inline *)

\* String.prototype.includes
StrIncludes(s, part) ==
    \E i \in 0..(Len(s) - Len(part)) : SubSeq(s, i + 1, i + Len(part)) = part

\* index of the last element satisfying P, 0 if none: what a Map built from
\* [name, category] pairs returns for a name
LastIndex(s, P(_)) ==
    IF \E i \in 1..Len(s) : P(s[i])
    THEN CHOOSE i \in 1..Len(s) : P(s[i]) /\ \A j \in (i+1)..Len(s) : ~P(s[j])
    ELSE 0

\* handleAddItems, one generated category (lines 59-72)
AddStep(mergedData, newCategory) ==
    LET Named(c) == c.category = newCategory.category
        idx == LastIndex(mergedData, Named)
        existingItemTexts ==
            {ToLowerCase(mergedData[idx].items[k].text) : k \in 1..Len(mergedData[idx].items)}
        IsNew(item) == ToLowerCase(item.text) \notin existingItemTexts
    IN  IF idx > 0
        THEN [mergedData EXCEPT ![idx].items = @ \o SelectSeq(newCategory.items, IsNew)]
        ELSE Append(mergedData, newCategory)

RECURSIVE AddLoop(_, _)
AddLoop(mergedData, generated) ==
    IF generated = <<>> THEN mergedData
    ELSE AddLoop(AddStep(mergedData, Head(generated)), Tail(generated))

\* handleAddItems: the updater handed to setChecklistData (lines 55-75)
MergedData(prevData, generatedChecklist) == AddLoop(prevData, generatedChecklist)

\* handleMoveItem (lines 168-185): whether it goes on to set and save, and what
MovedChecklist(checklistData, itemId, sourceCategoryId, destCategoryId) ==
    LET next   == DeepCopy(checklistData)
        IsSrc(c) == c.category = sourceCategoryId
        IsDst(c) == c.category = destCategoryId
        IsIt(i)  == i.id = itemId
        src    == FindIndex(next, IsSrc)
        itm    == IF src = 0 THEN 0 ELSE FindIndex(next[src].items, IsIt)
        itemToMove == next[src].items[itm]
        spliced == [next EXCEPT ![src].items =
                       SubSeq(@, 1, itm - 1) \o SubSeq(@, itm + 1, Len(@))]
        dst    == FindIndex(spliced, IsDst)
        pushed == IF dst > 0 THEN [spliced EXCEPT ![dst].items = Append(@, itemToMove)]
                  ELSE spliced
    IN  IF sourceCategoryId = destCategoryId \/ src = 0 \/ itm = 0
        THEN [set |-> FALSE, data |-> checklistData]
        ELSE [set |-> TRUE, data |-> SelectSeq(pushed, NonEmptyCat)]

\* handleRemoveItemsByText (lines 246-253)
RemoveByText(checklistData, itemsToRemove) ==
    LET lowered == Map(ToLowerCase, itemsToRemove)
        Keep(item) == ~\E k \in 1..Len(lowered) :
                          StrIncludes(ToLowerCase(item.text), lowered[k])
        Filtered(c) == [c EXCEPT !.items = SelectSeq(c.items, Keep)]
    IN  SelectSeq(Map(Filtered, checklistData), NonEmptyCat)

\* what the onConfirm closure of the open dialog computes from a checklist
ConfirmedData(m, cs) ==
    CASE m.kind = "deleteItem"     -> deleteItem(cs, m.cat, m.id)
      [] m.kind = "deleteCategory" -> deleteCategory(cs, m.cat)
      [] m.kind = "remove"         -> RemoveByText(cs, m.items)
      [] m.kind = "clear"          -> <<>>
      [] OTHER                     -> cs

----------------------------------------------------------------------------
(* What the user and the services may hand to an App *)

TextInput  == Egg
BlankInput == <<" ">>
UrlInput   == <<"a", ".", "c", "o">>
Inputs     == {BlankInput, TextInput, UrlInput}

\* URL_REGEX.test on the inputs above
IsUrl(s) == s = UrlInput

Commands == [intent : {"ADD", "REMOVE", "CLEAR", "UNKNOWN"}, items : {<<>>, <<Eggs>>}]

\* parsed replies of the model to a generation request
AppReplies == {<<>>,
               <<[category |-> Veg, items |-> <<Eggs>>]>>,
               <<[category |-> Uncategorized, items |-> <<Egg>>]>>}

AppTexts == {Eggs}

\* a checklist saved by an earlier session
Sample == <<[category |-> Veg,
             items |-> <<[id |-> 1, text |-> Egg, completed |-> FALSE]>>]>>

\* the (category, item) pairs the Checklist component renders
Rendered == UNION {{<<categories[i].category, categories[i].items[k]>> :
                        k \in 1..Len(categories[i].items)} : i \in 1..Len(categories)}
RenderedCats == {categories[i].category : i \in 1..Len(categories)}

\* every pending save has now seen another event (before, the checklist at the
\* time of the call, is followed only until then)
Dirty(ss) == [k \in 1..Len(ss) |-> [ss[k] EXCEPT !.clean = FALSE, !.before = <<>>]]

Did(op) == [NoOp EXCEPT !.op = op]

\* every item of the checklist before is an item of the checklist after
KeepsItems(before, after) ==
    \A k \in 1..Len(Flatten(before)) :
        \E m \in 1..Len(Flatten(after)) : Flatten(after)[m] = Flatten(before)[k]

\* ideal is the checklist the handled events give when each is applied, in
\* order, to the value current at its event; it is followed only while every
\* save has succeeded
InOrder(v) == IF saveFailed THEN <<>> ELSE v

\* the finally of the submit handler, for the n-th submission in flight
Finish(n) == isLoading' = FALSE /\ sub' = Without(sub, n)

----------------------------------------------------------------------------
(* The two App components.  app = "local" is unnamed/part_000 (checklistService *)
(* and localStorage); app = "remote" is unnamed/part_001 (inline handlers and   *)
(* saveChecklist).  One action is one event handler or one continuation after  *)
(* an await.  While the confirmation dialog is open its overlay covers the     *)
(* page, so only its own buttons and the pending replies are enabled.          *)

InitApp ==
    /\ app \in {"local", "remote"}
    /\ stored \in {<<>>, Sample}
    /\ nextId = ItemCount(stored) + 1
    /\ categories = IF app = "local" THEN stored ELSE <<>>
    /\ isInitializing = (app = "remote")
    /\ ideal = categories
    /\ last = NoOp
    /\ userInput = <<>>
    /\ isLoading = FALSE
    /\ error = "null"
    /\ modalState = NoModal
    /\ sub = <<>>
    /\ saves = <<>>
    /\ submitSnap = <<>>
    /\ saveFailed = FALSE
    /\ events = 0
    /\ form = NoForm

\* the save effect of the local App (lines 32-38) after a render
Persist(cs) == stored' = IF app = "local" THEN cs ELSE stored

\* the handler of a user event runs
UserEvent == events < MaxEvents /\ events' = events + 1

\* a saveChecklist call of the remote App with the closure that handles its failure
SaveCall(path, data, rollback, catch) ==
    [path |-> path, data |-> data, rollback |-> rollback, catch |-> catch,
     before |-> categories, clean |-> TRUE]

\* loadInitialData (part_001 lines 31-45)
LoadInitialData ==
    /\ app = "remote" /\ isInitializing
    /\ \E ok \in BOOLEAN :
          /\ categories' = IF ok THEN stored ELSE categories
          /\ ideal' = InOrder(IF ok THEN stored ELSE ideal)
          /\ error' = IF ok THEN "null" ELSE "load"
    /\ isInitializing' = FALSE
    /\ last' = Did("event")
    /\ saves' = Dirty(saves)
    /\ UNCHANGED <<nextId, app, form, userInput, isLoading, modalState, sub, stored, submitSnap,
                   saveFailed,
                   events>>

\* the textarea's onChange: setUserInput; the next render memoizes a new
\* handleSubmitInput, which captures that render's checklistData
TypeInput ==
    /\ app # "none" /\ ~isLoading /\ ~modalState.isOpen
    /\ \E v \in Inputs :
          /\ v # userInput
          /\ userInput' = v
    /\ submitSnap' = IF app = "remote" THEN categories ELSE submitSnap
    /\ last' = Did("event")
    /\ saves' = Dirty(saves)
    /\ UserEvent
    /\ UNCHANGED <<categories, nextId, app, form, isLoading, isInitializing, error, modalState,
                   sub, stored, ideal, saveFailed>>

\* handleSubmit (part_000 lines 53-60) / handleSubmitInput (part_001 lines 80-92),
\* up to the first await: the form's onSubmit
HandleSubmit ==
    /\ LET trimmedInput == Trim(userInput)
           first == IF app = "local"
                    THEN (IF Len(categories) > 0 THEN "classify" ELSE "generate")
                    ELSE (IF IsUrl(trimmedInput) THEN "url" ELSE "classify")
       IN  IF trimmedInput = <<>> \/ (app = "local" /\ isLoading)
           THEN /\ error' = IF app = "remote" THEN "empty" ELSE error
                /\ UNCHANGED <<isLoading, sub>>
           ELSE /\ isLoading' = TRUE
                /\ error' = "null"
                /\ sub' = Append(sub, [NoSub EXCEPT !.stage = first, !.input = trimmedInput])
    /\ saves' = Dirty(saves)
    /\ UNCHANGED <<categories, nextId, app, isInitializing, modalState, stored,
                   submitSnap, ideal, saveFailed>>

\* the submit button, or Enter in the textarea: both are disabled while isLoading
\* (InputForm.tsx lines 145-152, 164, 187)
Submit ==
    /\ app # "none" /\ ~isLoading /\ ~modalState.isOpen
    /\ HandleSubmit
    /\ last' = Did("event")
    /\ UserEvent
    /\ UNCHANGED <<userInput, form>>

\* handleCommand (part_000 lines 40-51): the checklist, the dialog and the error it leaves
HandleCommand(cs, command, firstId) ==
    CASE command.intent = "ADD" ->
             [categories |-> addItems(cs, command.items, firstId), modal |-> "none",
              error |-> "keep", used |-> Len(command.items)]
      [] command.intent = "REMOVE" ->
             [categories |-> removeItems(cs, command.items), modal |-> "none",
              error |-> "keep", used |-> 0]
      [] command.intent = "CLEAR" ->
             [categories |-> cs, modal |-> "clear", error |-> "keep", used |-> 0]
      [] OTHER ->
             [categories |-> cs, modal |-> "none", error |-> "unknown", used |-> 0]

\* the local App after await processCommand (part_000 lines 63-68)
LocalClassifiedAt(n) ==
    /\ app = "local" /\ sub[n].stage = "classify"
    /\ \E command \in Commands :
          IF command.intent # "UNKNOWN"
          THEN LET h == HandleCommand(categories, command, nextId)
               IN  /\ nextId + h.used - 1 <= AppMaxIds
                   /\ categories' = h.categories
                   /\ ideal' = InOrder(HandleCommand(ideal, command, nextId).categories)
                   /\ nextId' = nextId + h.used
                   /\ modalState' = IF h.modal = "clear"
                                    THEN [NoModal EXCEPT !.isOpen = TRUE, !.kind = "clear"]
                                    ELSE modalState
                   /\ error' = IF h.error = "keep" THEN error ELSE h.error
                   /\ userInput' = <<>>
                   /\ Finish(n)
                   /\ last' = [Did("submission") EXCEPT !.intent = command.intent,
                                   !.unchanged = (h.categories = categories),
                                   !.kept = KeepsItems(categories, h.categories),
                                   !.noItems = (/\ command.intent \in {"ADD", "REMOVE"}
                                                /\ command.items = <<>>)]
          ELSE /\ sub' = [sub EXCEPT ![n].stage = "generate", ![n].intent = "UNKNOWN"]
               /\ last' = Did("event")
               /\ UNCHANGED <<categories, ideal, nextId, modalState, error, userInput,
                              isLoading>>
    /\ Persist(categories')
    /\ UNCHANGED <<app, form, isInitializing, saves, submitSnap, saveFailed,
                   events>>

LocalClassified == \E n \in 1..Len(sub) : LocalClassifiedAt(n)

\* handleSubmit without the test on newCategories.length: an empty reply
\* replaces the checklist
LocalGenerated_SetsEmpty(cs, newCategories) ==
    [categories |-> newCategories, error |-> "keep", clearInput |-> TRUE]

\* part_000 lines 77-82: what handleSubmit does with the generated checklist
LocalGenerated(cs, newCategories) ==
    IF Len(newCategories) = 0
    THEN [categories |-> cs, error |-> "extract", clearInput |-> FALSE]
    ELSE [categories |-> newCategories, error |-> "keep", clearInput |-> TRUE]

\* the local App after await generateChecklistFromUrl / FromText (lines 70-88)
LocalGenerateDoneAt(n) ==
    /\ app = "local" /\ sub[n].stage = "generate"
    /\ \E raw \in AppReplies :
          LET g == LocalGenerated(categories, Structured(raw, nextId))
          IN  /\ nextId + RawCount(raw) - 1 <= AppMaxIds
              /\ categories' = g.categories
              /\ ideal' = InOrder(LocalGenerated(ideal, Structured(raw, nextId)).categories)
              /\ nextId' = nextId + RawCount(raw)
              /\ error' = IF g.error = "keep" THEN error ELSE g.error
              /\ userInput' = IF g.clearInput THEN <<>> ELSE userInput
              /\ last' = [Did("submission") EXCEPT !.intent = sub[n].intent, !.reply = raw,
                              !.path = "generate",
                              !.kept = KeepsItems(categories, g.categories),
                              !.unchanged = (g.categories = categories)]
    /\ Finish(n)
    /\ Persist(categories')
    /\ UNCHANGED <<app, form, isInitializing, modalState, saves, submitSnap, saveFailed,
                   events>>

LocalGenerateDone == \E n \in 1..Len(sub) : LocalGenerateDoneAt(n)

\* part_001 lines 94-101: the remote App after await generateChecklistFromUrl;
\* the generated checklist is flattened to text and generated again
RemoteUrlDoneAt(n) ==
    /\ app = "remote" /\ sub[n].stage = "url"
    /\ \E raw \in AppReplies :
          IF RawCount(raw) = 0
          THEN /\ error' = "url"
               /\ Finish(n)
               /\ last' = [Did("submission") EXCEPT !.path = "url", !.unchanged = TRUE]
          ELSE /\ sub' = [sub EXCEPT ![n].stage = "generate"]
               /\ last' = Did("event")
               /\ UNCHANGED <<error, isLoading>>
    /\ saves' = Dirty(saves)
    /\ UNCHANGED <<categories, nextId, app, form, userInput, isInitializing, modalState, stored,
                   submitSnap, ideal, saveFailed,
                   events>>

RemoteUrlDone == \E n \in 1..Len(sub) : RemoteUrlDoneAt(n)

\* requestRemoveItems / requestClearList as handleSubmitInput reaches them: the
\* dialog's onConfirm holds the checklistData of the render that memoized
\* handleSubmitInput (part_001 lines 80, 141, 245-268, 294-316)
RequestFromInput(kind, items) ==
    [isOpen |-> TRUE, kind |-> kind, cat |-> <<>>, id |-> 0, items |-> items,
     snap |-> submitSnap]

\* the remote App after await processCommand (part_001 lines 104-134)
RemoteClassifiedAt(n) ==
    /\ app = "remote" /\ sub[n].stage = "classify"
    /\ \E command \in Commands :
          LET ends == [Did("submission") EXCEPT !.intent = command.intent,
                           !.unchanged = TRUE]
          IN  CASE command.intent \in {"ADD", "REMOVE"} /\ command.items = <<>> ->
                     /\ error' = "specific"
                     /\ Finish(n)
                     /\ last' = [ends EXCEPT !.noItems = TRUE]
                     /\ UNCHANGED <<modalState, userInput, submitSnap>>
                [] command.intent = "ADD" /\ command.items # <<>> ->
                     /\ sub' = [sub EXCEPT ![n].stage = "generate", ![n].intent = "ADD"]
                     /\ last' = Did("event")
                     /\ UNCHANGED <<error, isLoading, modalState, userInput, submitSnap>>
                [] command.intent = "REMOVE" /\ command.items # <<>> ->
                     /\ modalState' = RequestFromInput("remove", command.items)
                     /\ userInput' = <<>>
                     /\ submitSnap' = categories
                     /\ Finish(n)
                     /\ last' = ends
                     /\ UNCHANGED error
                [] command.intent = "CLEAR" ->
                     /\ modalState' = RequestFromInput("clear", <<>>)
                     /\ userInput' = <<>>
                     /\ submitSnap' = categories
                     /\ Finish(n)
                     /\ last' = ends
                     /\ UNCHANGED error
                [] OTHER ->
                     /\ sub' = [sub EXCEPT ![n].stage = "generate", ![n].intent = "UNKNOWN"]
                     /\ last' = Did("event")
                     /\ UNCHANGED <<error, isLoading, modalState, userInput, submitSnap>>
    /\ saves' = Dirty(saves)
    /\ UNCHANGED <<categories, nextId, app, form, isInitializing, stored, ideal, saveFailed,
                   events>>

RemoteClassified == \E n \in 1..Len(sub) : RemoteClassifiedAt(n)

\* handleAddItems without the test on generatedChecklist.length: an empty
\* checklist is merged like any other
RemoteGenerated_MergesEmpty(prevData, generatedChecklist) ==
    [set |-> TRUE, data |-> MergedData(prevData, generatedChecklist), error |-> "keep"]

\* handleAddItems after await generateChecklistFromText (part_001 lines 50-76)
RemoteGenerated(prevData, generatedChecklist) ==
    IF Len(generatedChecklist) = 0
    THEN [set |-> FALSE, data |-> prevData, error |-> "extract"]
    ELSE [set |-> TRUE, data |-> MergedData(prevData, generatedChecklist), error |-> "keep"]

\* the remote App after the await in handleAddItems, to the end of handleSubmitInput
RemoteGenerateDoneAt(n) ==
    /\ app = "remote" /\ sub[n].stage = "generate"
    /\ \E raw \in AppReplies :
          LET g == RemoteGenerated(categories, Structured(raw, nextId))
          IN  /\ nextId + RawCount(raw) - 1 <= AppMaxIds
              /\ g.set => Len(saves) < MaxPending
              /\ categories' = g.data
              /\ ideal' = InOrder(RemoteGenerated(ideal, Structured(raw, nextId)).data)
              /\ nextId' = nextId + RawCount(raw)
              /\ error' = IF g.error = "keep" THEN error ELSE g.error
              /\ userInput' = IF g.set THEN <<>> ELSE userInput
              /\ submitSnap' = IF g.set THEN g.data ELSE submitSnap
              /\ saves' = IF g.set
                          THEN Append(Dirty(saves),
                                      SaveCall("add", g.data, categories, FALSE))
                          ELSE Dirty(saves)
              /\ last' = [Did("submission") EXCEPT !.intent = sub[n].intent, !.reply = raw,
                              !.path = "generate",
                              !.kept = KeepsItems(categories, g.data),
                              !.unchanged = (g.data = categories)]
    /\ Finish(n)
    /\ UNCHANGED <<app, form, isInitializing, modalState, stored, saveFailed,
                   events>>

RemoteGenerateDone == \E n \in 1..Len(sub) : RemoteGenerateDoneAt(n)

\* the Checklist component is on screen and reachable
ChecklistShown ==
    /\ ~modalState.isOpen
    /\ IF app = "local" THEN Len(categories) > 0 /\ ~isLoading
       ELSE app = "remote" /\ ~isInitializing /\ Len(categories) > 0

\* what an item handler makes of a checklist: whether it sets the state, and to what
Toggled(cs, categoryId, itemId) ==
    [set |-> TRUE, data |-> toggleItem(cs, categoryId, itemId)]
Edited(cs, categoryId, itemId, newText) ==
    [set |-> TRUE, data |-> editItem(cs, categoryId, itemId, newText)]
Moved(cs, itemId, sourceCategoryId, destCategoryId) ==
    IF app = "local"
    THEN [set |-> TRUE, data |-> moveItem(cs, itemId, sourceCategoryId, destCategoryId)]
    ELSE MovedChecklist(cs, itemId, sourceCategoryId, destCategoryId)

\* an item handler of an App: the local one hands checklistService an updater
\* over the current state (part_000 lines 91-125); the remote one sets the value
\* it computed from its checklistData and saves it, rolling back to that
\* checklistData if the save fails (part_001 lines 144-217)
ItemEvent(op, now, inOrder) ==
    /\ IF app = "local"
       THEN saves' = saves
       ELSE /\ now.set => Len(saves) < MaxPending
            /\ saves' = IF now.set
                        THEN Append(Dirty(saves), SaveCall(op, now.data, categories, TRUE))
                        ELSE Dirty(saves)
    /\ categories' = IF now.set THEN now.data ELSE categories
    /\ ideal' = InOrder(IF inOrder.set THEN inOrder.data ELSE ideal)
    /\ last' = Did("event")
    /\ Persist(categories')
    /\ UserEvent
    /\ UNCHANGED <<nextId, app, form, userInput, isLoading, isInitializing, error, modalState,
                   sub, submitSnap, saveFailed>>

\* onToggleItem (part_000 line 91) / handleToggleItem (part_001 line 144)
onToggleItem ==
    /\ ChecklistShown
    /\ \E r \in Rendered :
          ItemEvent("toggle", Toggled(categories, r[1], r[2].id),
                    Toggled(ideal, r[1], r[2].id))

\* onEditItem (part_000 line 123) / handleEditItem (part_001 line 194), called by
\* ChecklistItem.handleSave with a non-empty text other than the item's
onEditItem ==
    /\ ChecklistShown
    /\ \E r \in Rendered, newText \in AppTexts :
          /\ ~r[2].completed
          /\ newText # r[2].text
          /\ ItemEvent("edit", Edited(categories, r[1], r[2].id, newText),
                       Edited(ideal, r[1], r[2].id, newText))

\* onMoveItem (part_000 line 95) / handleMoveItem (part_001 line 168), called by
\* Checklist.handleDrop
onMoveItem ==
    /\ ChecklistShown
    /\ \E r \in Rendered, dest \in RenderedCats :
          ItemEvent("move", Moved(categories, r[2].id, r[1], dest),
                    Moved(ideal, r[2].id, r[1], dest))

\* onDeleteItem (part_000 line 99) / requestDeleteItem (part_001 line 270)
onDeleteItem ==
    /\ ChecklistShown
    /\ \E r \in Rendered :
          modalState' = [isOpen |-> TRUE, kind |-> "deleteItem", cat |-> r[1],
                         id |-> r[2].id, items |-> <<>>,
                         snap |-> IF app = "remote" THEN categories ELSE <<>>]
    /\ last' = Did("request")
    /\ saves' = Dirty(saves)
    /\ UserEvent
    /\ UNCHANGED <<categories, nextId, app, form, userInput, isLoading, isInitializing, error,
                   sub, stored, submitSnap, ideal, saveFailed>>

\* onDeleteCategory (part_000 line 111) / requestDeleteCategory (part_001 line 282)
onDeleteCategory ==
    /\ ChecklistShown
    /\ \E c \in RenderedCats :
          modalState' = [isOpen |-> TRUE, kind |-> "deleteCategory", cat |-> c,
                         id |-> 0, items |-> <<>>,
                         snap |-> IF app = "remote" THEN categories ELSE <<>>]
    /\ last' = Did("request")
    /\ saves' = Dirty(saves)
    /\ UserEvent
    /\ UNCHANGED <<categories, nextId, app, form, userInput, isLoading, isInitializing, error,
                   sub, stored, submitSnap, ideal, saveFailed>>

\* closeModal (part_000 line 139, part_001 line 318)
Closed == IF app = "local" THEN [modalState EXCEPT !.isOpen = FALSE] ELSE NoModal

\* the dialog's Confirm button: modalState.onConfirm.  The local closures update
\* the current state; the remote ones call a handler that computes from, and
\* rolls back to, the checklistData it captured
Confirm ==
    /\ app # "none" /\ modalState.isOpen
    /\ IF app = "local"
       THEN /\ categories' = ConfirmedData(modalState, categories)
            /\ saves' = saves
       ELSE /\ Len(saves) < MaxPending
            /\ categories' = ConfirmedData(modalState, modalState.snap)
            /\ saves' = Append(Dirty(saves),
                               SaveCall(modalState.kind, categories', modalState.snap, TRUE))
    /\ ideal' = InOrder(ConfirmedData(modalState, ideal))
    /\ modalState' = Closed
    /\ last' = Did("event")
    /\ Persist(categories')
    /\ UserEvent
    /\ UNCHANGED <<nextId, app, form, userInput, isLoading, isInitializing, error, sub,
                   submitSnap, saveFailed>>

\* the dialog's Cancel button or Escape: closeModal
Cancel ==
    /\ app # "none" /\ modalState.isOpen
    /\ modalState' = Closed
    /\ last' = Did("cancel")
    /\ saves' = Dirty(saves)
    /\ UserEvent
    /\ UNCHANGED <<categories, nextId, app, form, userInput, isLoading, isInitializing, error,
                   sub, stored, submitSnap, ideal, saveFailed>>

\* a pending saveChecklist promise resolves
SaveOk ==
    /\ app = "remote"
    /\ \E k \in 1..Len(saves) :
          /\ stored' = saves[k].data
          /\ saves' = Dirty(SubSeq(saves, 1, k - 1) \o SubSeq(saves, k + 1, Len(saves)))
    /\ last' = Did("event")
    /\ UNCHANGED <<categories, nextId, app, form, userInput, isLoading, isInitializing, error,
                   modalState, sub, submitSnap, ideal, saveFailed,
                   events>>

\* a pending saveChecklist promise rejects: the catch of the handler that made
\* the call runs, if it has one (handleAddItems, part_001 line 73, has none)
SaveFail ==
    /\ app = "remote"
    /\ \E k \in 1..Len(saves) :
          LET s == saves[k]
          IN  /\ categories' = IF s.catch THEN s.rollback ELSE categories
              /\ error' = IF s.catch THEN "save" ELSE error
              /\ saves' = Dirty(SubSeq(saves, 1, k - 1) \o SubSeq(saves, k + 1, Len(saves)))
              /\ last' = [Did("saveFailed") EXCEPT !.clean = s.clean, !.path = s.path,
                              !.restored = (categories' = s.before)]
    /\ saveFailed' = TRUE
    /\ ideal' = <<>>
    /\ UNCHANGED <<nextId, app, form, userInput, isLoading, isInitializing, modalState, sub,
                   stored, submitSnap,
                   events>>

NextApp ==
    \/ LoadInitialData
    \/ TypeInput
    \/ Submit
    \/ LocalClassified
    \/ LocalGenerateDone
    \/ RemoteUrlDone
    \/ RemoteClassified
    \/ RemoteGenerateDone
    \/ onToggleItem
    \/ onEditItem
    \/ onMoveItem
    \/ onDeleteItem
    \/ onDeleteCategory
    \/ Confirm
    \/ Cancel
    \/ SaveOk
    \/ SaveFail

SpecApp == InitApp /\ [][NextApp]_vars

----------------------------------------------------------------------------
(* InputForm: the mic button and the speech recognition engine               *)
(* (components/InputForm.tsx). The engine is idle, starting (start() called, *)
(* onstart not yet fired), running, stopping (stop() called, onend pending)  *)
(* or failed (onerror fired, onend pending). A disabled button delivers no   *)
(* press and no release.                                                     *)

\* what a dictation may leave in the textarea
Dictated == {TextInput, BlankInput}

\* setUserInput re-creates the memoized handleSubmitInput of the remote App
\* (part_001 line 141)
Rememoized == IF app = "remote" /\ userInput' # userInput THEN categories ELSE submitSnap

\* the form changes nothing in the App but the input
FormOnly ==
    /\ submitSnap' = Rememoized
    /\ saves' = Dirty(saves)
    /\ UNCHANGED <<categories, nextId, app, isLoading, isInitializing, error, modalState,
                   sub, stored, ideal, saveFailed>>

\* a callback of the recognition engine; it is counted with the user's events,
\* which bounds the run
EngineEvent == events < MaxEvents /\ events' = events + 1

\* handleMicPress (InputForm.tsx lines 120-136)
handleMicPress ==
    /\ app # "none" /\ ~isLoading /\ ~modalState.isOpen
    /\ IF form.isRecording
       THEN UNCHANGED <<form, userInput>>
       ELSE /\ userInput' = <<>>
            /\ form' = IF form.recognition = "idle"
                       THEN [form EXCEPT !.pressed = TRUE, !.recognition = "starting",
                                         !.submits = 0]
                       ELSE [form EXCEPT !.pressed = FALSE, !.isRecording = FALSE]
    /\ last' = [Did("micPress") EXCEPT !.unchanged = form.isRecording]
    /\ FormOnly
    /\ UserEvent

\* handleMicRelease (InputForm.tsx lines 138-143), from onMouseUp, onTouchEnd
\* or onMouseLeave
handleMicRelease ==
    /\ app # "none" /\ ~isLoading /\ ~modalState.isOpen
    /\ form' = IF ~form.pressed
               THEN form
               ELSE [form EXCEPT !.pressed = FALSE,
                                 !.recognition = IF @ \in {"starting", "running"}
                                                 THEN "stopping" ELSE @]
    /\ last' = Did("micRelease")
    /\ UNCHANGED userInput
    /\ FormOnly
    /\ UserEvent

\* recognition.onstart (InputForm.tsx lines 45-47)
onstart ==
    /\ app # "none" /\ form.recognition = "starting"
    /\ form' = [form EXCEPT !.recognition = "running", !.isRecording = TRUE]
    /\ last' = Did("onstart")
    /\ UNCHANGED userInput
    /\ EngineEvent
    /\ FormOnly

\* recognition.onresult (InputForm.tsx lines 82-105)
onresult ==
    /\ app # "none" /\ form.recognition \in {"running", "stopping"}
    /\ \E v \in Dictated :
          /\ v # userInput
          /\ userInput' = v
    /\ last' = Did("onresult")
    /\ FormOnly
    /\ UNCHANGED form
    /\ EngineEvent

\* recognition.onerror (InputForm.tsx lines 70-80); onend follows
onerror ==
    /\ app # "none" /\ form.recognition \in {"starting", "running", "stopping"}
    /\ \E fatal \in BOOLEAN :
          form' = [form EXCEPT !.recognition = "failed", !.isRecording = FALSE,
                               !.pressed = IF fatal THEN FALSE ELSE @]
    /\ last' = Did("onerror")
    /\ UNCHANGED userInput
    /\ EngineEvent
    /\ FormOnly

\* recognition.onend without the test on isMicButtonPressedRef: the form is
\* submitted whenever the input is not blank
onend_AlwaysSubmits(held) ==
    FALSE

\* recognition.onend restarts the engine rather than submitting
\* (InputForm.tsx line 53)
Restarts(held) ==
    held

\* recognition.onend (InputForm.tsx lines 49-68): the browser timed out, or
\* stop() or an error ended the session
onend ==
    /\ app # "none" /\ form.recognition \in {"running", "stopping", "failed"}
    /\ UNCHANGED userInput
    /\ EngineEvent
    /\ IF Restarts(form.pressed)
       THEN /\ form' = [form EXCEPT !.isRecording = FALSE, !.recognition = "starting"]
            /\ last' = [Did("onend") EXCEPT !.path = "restart"]
            /\ FormOnly
       ELSE IF Trim(userInput) # <<>>
            THEN /\ form' = [form EXCEPT !.isRecording = FALSE, !.recognition = "idle",
                                         !.submits = @ + 1]
                 /\ last' = [Did("onend") EXCEPT !.path = "submit"]
                 /\ HandleSubmit
            ELSE /\ form' = [form EXCEPT !.isRecording = FALSE, !.recognition = "idle"]
                 /\ last' = [Did("onend") EXCEPT !.path = "idle"]
                 /\ FormOnly

\* the Apps with their form, the checklist left alone
NextForm ==
    \/ LoadInitialData
    \/ TypeInput
    \/ Submit
    \/ LocalClassified
    \/ LocalGenerateDone
    \/ RemoteUrlDone
    \/ RemoteClassified
    \/ RemoteGenerateDone
    \/ Confirm
    \/ Cancel
    \/ SaveOk
    \/ SaveFail
    \/ handleMicPress
    \/ handleMicRelease
    \/ onstart
    \/ onresult
    \/ onerror
    \/ onend

SpecForm == InitApp /\ [][NextForm]_vars

----------------------------------------------------------------------------
(* mergeCategories and addItems called one after the other, from a non-empty *)
(* checklist whose category names differ after lower-casing and trimming;    *)
(* the names the generation service hands in may differ in case and in       *)
(* surrounding white space only                                              *)

NameNames   == {Veg, vegSp, Uncategorized, UncatSp}
NameTexts   == {Egg, Eggs}
NameRawCats == [category : NameNames, items : {<<t>> : t \in NameTexts}]
NameReplies == {<<c>> : c \in NameRawCats} \cup {<<c, d>> : c \in NameRawCats, d \in NameRawCats}

InitNames ==
    /\ categories \in {Structured(r, 1) : r \in NameReplies}
    /\ \A i, j \in 1..Len(categories) :
          i # j => Norm(categories[i].category) # Norm(categories[j].category)
    /\ nextId = ItemCount(categories) + 1
    /\ last = NoOp
    /\ AppIdle

NamesMerge ==
    \E raw \in NameReplies :
        LET incoming == Structured(raw, nextId)
            call     == MergeCall(categories, incoming)
        IN  /\ nextId + RawCount(raw) - 1 <= MaxNameIds
            /\ Apply("mergeCategories", call.result,
                     [NoOp EXCEPT !.incoming = incoming, !.incomingAfter = call.incoming,
                                  !.sameArray = call.sameArray])
            /\ nextId' = nextId + RawCount(raw)

NamesAdd ==
    \E t \in NameTexts :
        /\ nextId <= MaxNameIds
        /\ Apply("addItems", addItems(categories, <<t>>, nextId),
                 [NoOp EXCEPT !.args = [NoOp.args EXCEPT !.texts = <<t>>]])
        /\ nextId' = nextId + 1

NextNames == NamesMerge \/ NamesAdd

SpecNames == InitNames /\ [][NextNames]_vars

----------------------------------------------------------------------------
(* services/commandService.ts: processCommand on every outcome of the model  *)
(* call.  A JSON value is a record with its type; a string carries str, an   *)
(* array elems, an object the values of its intent and items properties.     *)

Undefined  == [type |-> "undefined"]
JsonNull   == [type |-> "null"]
JsonNumber == [type |-> "number"]
JsonString(str)  == [type |-> "string", str |-> str]
JsonArray(elems) == [type |-> "array", elems |-> elems]
JsonObject(intent, items) == [type |-> "object", intent |-> intent, items |-> items]

\* what the model may put under "intent" and under "items"
IntentValues == {Undefined, JsonNull, JsonNumber}
                    \cup {JsonString(n) : n \in {"ADD", "REMOVE", "CLEAR", "UNKNOWN", "add", "DELETE", ""}}
ItemsValues  == {Undefined, JsonNull, JsonString("eggs"),
                 JsonArray(<<>>), JsonArray(<<JsonString("eggs")>>),
                 JsonArray(<<JsonString("eggs"), JsonString("milk")>>),
                 JsonArray(<<JsonNumber>>)}

JsonValues == {JsonNull, JsonNumber, JsonString(""), JsonString("ADD"), JsonArray(<<>>)}
                  \cup {JsonObject(i, t) : i \in IntentValues, t \in ItemsValues}

\* outcomes of ai.models.generateContent followed by response.text: the call
\* rejects, or the text is not JSON (undefined and '' included), or it is JSON
ModelOutcomes == {[kind |-> "rejects"], [kind |-> "garbled"]}
                     \cup {[kind |-> "json", value |-> v] : v \in JsonValues}

\* property access v.name: undefined on anything but an object
Field(v, name) == IF v.type = "object" THEN v[name] ELSE Undefined

\* JavaScript truthiness of a parsed JSON value (a number stands for a non-zero one)
Truthy(v) == /\ v.type \notin {"undefined", "null"}
             /\ ~(v.type = "string" /\ v.str = "")

UnknownCommand == JsonObject(JsonString("UNKNOWN"), JsonArray(<<>>))

\* the try block (lines 35-74): it throws, or returns a value
TryProcess(outcome) ==
    IF outcome.kind # "json" THEN [threw |-> TRUE, value |-> Undefined]
    ELSE LET parsedJson == outcome.value
             intent == Field(parsedJson, "intent")
             items  == Field(parsedJson, "items")
         IN  IF /\ Truthy(parsedJson)
                /\ intent.type = "string"
                /\ intent.str \in {"ADD", "REMOVE", "CLEAR", "UNKNOWN"}
                /\ items.type = "array"
             THEN [threw |-> FALSE, value |-> parsedJson]
             ELSE [threw |-> FALSE, value |-> UnknownCommand]

\* processCommand without its catch: a failure of the model call propagates
processCommand_NoCatch(outcome) == TryProcess(outcome)

\* processCommand (lines 33-81): what it returns, or that it threw
processCommand(outcome) ==
    LET tried == TryProcess(outcome)
    IN  IF tried.threw THEN [threw |-> FALSE, value |-> UnknownCommand] ELSE tried

InitCommand ==
    /\ categories = <<>>
    /\ nextId = 1
    /\ last = NoOp
    /\ app = "none"
    /\ userInput = <<>>
    /\ isLoading = FALSE
    /\ isInitializing = FALSE
    /\ error = "null"
    /\ modalState = NoModal
    /\ sub \in {<<[NoSub EXCEPT !.stage = "classify", !.input = TextInput, !.response = o]>> :
                    o \in ModelOutcomes}
    /\ saves = <<>>
    /\ stored = <<>>
    /\ submitSnap = <<>>
    /\ ideal = <<>>
    /\ saveFailed = FALSE
    /\ events = 0
    /\ form = NoForm

ProcessCommand ==
    /\ last.op = "none"
    /\ Len(sub) = 1 /\ sub[1].stage = "classify"
    /\ last' = [NoOp EXCEPT !.op = "processCommand",
                            !.command = processCommand(sub[1].response)]
    /\ UNCHANGED <<categories, nextId, appVars>>

NextCommand == ProcessCommand

SpecCommand == InitCommand /\ [][NextCommand]_vars

----------------------------------------------------------------------------
(* The durable store of the local App (unnamed/part_000 lines 14-38): the    *)
(* value of the localStorage key is a JSON text, here a sequence of lexemes: *)
(* punctuation, property keys and literals are one lexeme each, the content  *)
(* of a string is one lexeme per character, quotes and backslashes escaped.  *)

Quote     == "\""
Backslash == "\\"

\* texts that need escaping
Quoted  == <<"e", Quote, "g">>
Slashed == <<"e", Backslash>>

RECURSIVE Esc_Nothing(_)
\* Esc leaving every character as it is
Esc_Nothing(str) == IF str = <<>> THEN <<>> ELSE <<Head(str)>> \o Esc_Nothing(Tail(str))

RECURSIVE Esc(_)
\* JSON.stringify on the characters of a string
Esc(str) ==
    IF str = <<>> THEN <<>>
    ELSE (IF Head(str) \in {Quote, Backslash} THEN <<Backslash, Head(str)>> ELSE <<Head(str)>>)
             \o Esc(Tail(str))

JsonStr(str) == <<Quote>> \o Esc(str) \o <<Quote>>

\* an id (a UUID string in the code) as the characters of a string
IdChars(id) == <<CASE id = 1 -> "1" [] id = 2 -> "2" [] id = 3 -> "3" [] id = 4 -> "4"
                   [] OTHER -> "0">>
IdOf(chars) == IF chars = <<"1">> THEN 1 ELSE IF chars = <<"2">> THEN 2
               ELSE IF chars = <<"3">> THEN 3 ELSE IF chars = <<"4">> THEN 4 ELSE 0

JsonItem(item) ==
    <<"{", "\"id\":">> \o JsonStr(IdChars(item.id))
        \o <<",", "\"text\":">> \o JsonStr(item.text)
        \o <<",", "\"completed\":", IF item.completed THEN "true" ELSE "false", "}">>

RECURSIVE JsonItems(_)
JsonItems(items) ==
    IF items = <<>> THEN <<>>
    ELSE JsonItem(Head(items))
             \o (IF Tail(items) = <<>> THEN <<>> ELSE <<",">> \o JsonItems(Tail(items)))

JsonCategory(c) ==
    <<"{", "\"category\":">> \o JsonStr(c.category)
        \o <<",", "\"items\":", "[">> \o JsonItems(c.items) \o <<"]", "}">>

RECURSIVE JsonCategories(_)
JsonCategories(cs) ==
    IF cs = <<>> THEN <<>>
    ELSE JsonCategory(Head(cs))
             \o (IF Tail(cs) = <<>> THEN <<>> ELSE <<",">> \o JsonCategories(Tail(cs)))

\* JSON.stringify(categories)
Stringify(cs) == <<"[">> \o JsonCategories(cs) \o <<"]">>

\* the result of a parsing step: whether it succeeded, the value read, the text left
Failed == [ok |-> FALSE, value |-> <<>>, rest |-> <<>>]
Read(value, rest) == [ok |-> TRUE, value |-> value, rest |-> rest]

\* the text starts with the given lexemes
Starts(text, lexemes) ==
    Len(text) >= Len(lexemes) /\ SubSeq(text, 1, Len(lexemes)) = lexemes
Skip(text, n) == SubSeq(text, n + 1, Len(text))

RECURSIVE ReadChars(_, _)
\* the characters of a string up to its closing quote
ReadChars(text, acc) ==
    IF text = <<>> THEN Failed
    ELSE IF Head(text) = Quote THEN Read(acc, Tail(text))
    ELSE IF Head(text) = Backslash
         THEN (IF Len(text) < 2 \/ text[2] \notin {Quote, Backslash} THEN Failed
               ELSE ReadChars(Skip(text, 2), Append(acc, text[2])))
    ELSE ReadChars(Tail(text), Append(acc, Head(text)))

ParseStr(text) == IF Starts(text, <<Quote>>) THEN ReadChars(Tail(text), <<>>) ELSE Failed

ParseBool(text) ==
    IF Starts(text, <<"true">>) THEN Read(TRUE, Tail(text))
    ELSE IF Starts(text, <<"false">>) THEN Read(FALSE, Tail(text))
    ELSE Failed

\* Each intermediate result is bound once, as the only element of a set, and
\* then used by name.
ParseItem(text) ==
    IF ~Starts(text, <<"{", "\"id\":">>) THEN Failed
    ELSE CHOOSE item \in
           {IF ~id.ok \/ ~Starts(id.rest, <<",", "\"text\":">>) THEN Failed
            ELSE CHOOSE item2 \in
                   {IF ~txt.ok \/ ~Starts(txt.rest, <<",", "\"completed\":">>) THEN Failed
                    ELSE CHOOSE item3 \in
                           {IF ~done.ok \/ ~Starts(done.rest, <<"}">>) THEN Failed
                            ELSE Read([id |-> IdOf(id.value), text |-> txt.value,
                                       completed |-> done.value],
                                      Tail(done.rest)) :
                                done \in {ParseBool(Skip(txt.rest, 2))}} : TRUE :
                        txt \in {ParseStr(Skip(id.rest, 2))}} : TRUE :
                id \in {ParseStr(Skip(text, 2))}} : TRUE

RECURSIVE ParseMoreItems(_, _)
\* after an item: a comma and another item, or the closing bracket
ParseMoreItems(text, acc) ==
    IF Starts(text, <<"]">>) THEN Read(acc, Tail(text))
    ELSE IF ~Starts(text, <<",">>) THEN Failed
    ELSE CHOOSE items \in
           {IF item.ok THEN ParseMoreItems(item.rest, Append(acc, item.value)) ELSE Failed :
                item \in {ParseItem(Tail(text))}} : TRUE

ParseItems(text) ==
    IF ~Starts(text, <<"[">>) THEN Failed
    ELSE IF Starts(text, <<"[", "]">>) THEN Read(<<>>, Skip(text, 2))
    ELSE CHOOSE items \in
           {IF item.ok THEN ParseMoreItems(item.rest, <<item.value>>) ELSE Failed :
                item \in {ParseItem(Tail(text))}} : TRUE

ParseCategory(text) ==
    IF ~Starts(text, <<"{", "\"category\":">>) THEN Failed
    ELSE CHOOSE c \in
           {IF ~name.ok \/ ~Starts(name.rest, <<",", "\"items\":">>) THEN Failed
            ELSE CHOOSE c2 \in
                   {IF ~items.ok \/ ~Starts(items.rest, <<"}">>) THEN Failed
                    ELSE Read([category |-> name.value, items |-> items.value],
                              Tail(items.rest)) :
                        items \in {ParseItems(Skip(name.rest, 2))}} : TRUE :
                name \in {ParseStr(Skip(text, 2))}} : TRUE

RECURSIVE ParseMoreCategories(_, _)
ParseMoreCategories(text, acc) ==
    IF Starts(text, <<"]">>) THEN Read(acc, Tail(text))
    ELSE IF ~Starts(text, <<",">>) THEN Failed
    ELSE CHOOSE cs \in
           {IF c.ok THEN ParseMoreCategories(c.rest, Append(acc, c.value)) ELSE Failed :
                c \in {ParseCategory(Tail(text))}} : TRUE

ParseCategories(text) ==
    IF ~Starts(text, <<"[">>) THEN Failed
    ELSE IF Starts(text, <<"[", "]">>) THEN Read(<<>>, Skip(text, 2))
    ELSE CHOOSE cs \in
           {IF c.ok THEN ParseMoreCategories(c.rest, <<c.value>>) ELSE Failed :
                c \in {ParseCategory(Tail(text))}} : TRUE

\* JSON.parse on the text of a checklist, whole or damaged: the value, or a SyntaxError
JsonParse(text) ==
    CHOOSE parsed \in
        {IF r.ok /\ r.rest = <<>> THEN [threw |-> FALSE, value |-> r.value]
         ELSE [threw |-> TRUE, value |-> <<>>] :
             r \in {ParseCategories(text)}} : TRUE

\* what localStorage holds under the key: nothing, or a text
NoEntry == [present |-> FALSE, text |-> <<>>]
Entry(text) == [present |-> TRUE, text |-> text]

\* the useState initializer without its try/catch: a throw in it takes the App down
LocalLoad_NoCatch(store, readable) ==
    IF ~readable THEN [crashed |-> TRUE, categories |-> <<>>]
    ELSE IF ~store.present \/ store.text = <<>> THEN [crashed |-> FALSE, categories |-> <<>>]
    ELSE LET parsed == JsonParse(store.text)
         IN  [crashed |-> parsed.threw, categories |-> parsed.value]

\* the useState initializer of categories (part_000 lines 14-22); readable is
\* whether localStorage.getItem returns rather than throws
LocalLoad(store, readable) ==
    IF ~readable THEN [crashed |-> FALSE, categories |-> <<>>]
    ELSE IF ~store.present \/ store.text = <<>> THEN [crashed |-> FALSE, categories |-> <<>>]
    ELSE LET parsed == JsonParse(store.text)
         IN  IF parsed.threw THEN [crashed |-> FALSE, categories |-> <<>>]
             ELSE [crashed |-> FALSE, categories |-> parsed.value]

\* getChecklist of the remote App: the stored checklist, the empty one when
\* nothing is stored or the stored text does not parse
getChecklist(store) ==
    IF ~store.present \/ store.text = <<>> THEN <<>>
    ELSE LET parsed == JsonParse(store.text)
         IN  IF parsed.threw THEN <<>> ELSE parsed.value

StoreNames    == {Veg, Uncategorized}
StoreTexts    == {Egg, Quoted, Slashed}
StoreTextSeqs == {<<t>> : t \in StoreTexts} \cup {<<t, u>> : t \in StoreTexts, u \in StoreTexts}
StoreRawCats  == [category : StoreNames, items : StoreTextSeqs]
StoreReplies  ==
    {r \in {<<c>> : c \in StoreRawCats} \cup {<<c, d>> : c \in StoreRawCats, d \in StoreRawCats} :
        RawCount(r) <= MaxStoreItems}

\* checklists of a session
StoreChecklists == {<<>>} \cup {Structured(r, 1) : r \in StoreReplies}
                          \cup {FirstToggled(Structured(r, 1)) : r \in StoreReplies}

\* a text cut short
Truncated(text) == SubSeq(text, 1, Len(text) - 1)

\* what an earlier session, or anything else, left under the key
StoreContents ==
    {NoEntry, Entry(<<>>)}
        \cup {Entry(Stringify(cs)) : cs \in StoreChecklists}
        \cup {Entry(Truncated(Stringify(cs))) : cs \in StoreChecklists}

\* before the App mounts
InitStore ==
    /\ app \in {"local", "remote"}
    /\ stored \in StoreContents
    /\ categories = <<>>
    /\ nextId = 1
    /\ last = NoOp
    /\ isInitializing = TRUE
    /\ userInput = <<>>
    /\ isLoading = FALSE
    /\ error = "null"
    /\ modalState = NoModal
    /\ sub = <<>>
    /\ saves = <<>>
    /\ submitSnap = <<>>
    /\ ideal = <<>>
    /\ saveFailed = FALSE
    /\ events = 0
    /\ form = NoForm

\* the local App mounts: a first session, or one after a save
Mount(op) ==
    /\ app = "local"
    /\ \E readable \in BOOLEAN :
          LET loaded == LocalLoad(stored, readable)
          IN  /\ categories' = loaded.categories
              /\ error' = IF loaded.crashed THEN "crash" ELSE error
              /\ last' = [last EXCEPT !.op = op, !.path = IF readable THEN "read" ELSE "unreadable"]
    /\ isInitializing' = FALSE
    /\ UNCHANGED <<nextId, app, form, userInput, isLoading, modalState, sub, saves, stored,
                   submitSnap, ideal, saveFailed, events>>

MountLocal == isInitializing /\ last.op = "none" /\ Mount("load")

\* loadInitialData of the remote App (part_001 lines 31-45) on the store's text
LoadRemote ==
    /\ app = "remote" /\ isInitializing
    /\ \E rejects \in BOOLEAN :
          /\ categories' = IF rejects THEN categories ELSE getChecklist(stored)
          /\ error' = IF rejects THEN "load" ELSE "null"
          /\ last' = [NoOp EXCEPT !.op = "load", !.path = IF rejects THEN "unreadable" ELSE "read"]
    /\ isInitializing' = FALSE
    /\ UNCHANGED <<nextId, app, form, userInput, isLoading, modalState, sub, saves, stored,
                   submitSnap, ideal, saveFailed, events>>

\* the session brings the checklist to some value
SetCategories ==
    /\ app = "local" /\ last.op = "load"
    /\ \E cs \in StoreChecklists : categories' = cs
    /\ last' = [NoOp EXCEPT !.op = "set"]
    /\ UNCHANGED <<nextId, appVars>>

\* the save effect (part_000 lines 32-38); setItem may throw, which is caught
SaveEffect ==
    /\ app = "local" /\ last.op = "set"
    /\ \E written \in BOOLEAN :
          /\ stored' = IF written THEN Entry(Stringify(categories)) ELSE stored
          /\ last' = [NoOp EXCEPT !.op = "save", !.before = categories, !.clean = written]
    /\ UNCHANGED <<categories, nextId, app, form, userInput, isLoading, isInitializing, error,
                   modalState, sub, saves, submitSnap, ideal, saveFailed, events>>

\* the page is opened again
Reload == last.op = "save" /\ Mount("reload")

NextStore ==
    \/ MountLocal
    \/ LoadRemote
    \/ SetCategories
    \/ SaveEffect
    \/ Reload

SpecStore == InitStore /\ [][NextStore]_vars

----------------------------------------------------------------------------
(* One call of an operation with arbitrary arguments, on a checklist as the *)
(* generation service builds it (category names may repeat, ids are unique, *)
(* no category is empty), possibly with its first item toggled              *)

CallNames == {Veg, Uncategorized, uncategorized}
CallTexts == {Egg, Eggs, EggSp}

CallTextSeqs == {<<t>> : t \in CallTexts} \cup {<<t, u>> : t \in CallTexts, u \in CallTexts}
CallRawCats  == [category : CallNames, items : CallTextSeqs]
\* one-item categories, for replies of three categories
CallSingles  == [category : CallNames, items : {<<Egg>>}]
CallReplies  ==
    {r \in {<<c>> : c \in CallRawCats}
            \cup {<<c, d>> : c \in CallRawCats, d \in CallRawCats}
            \cup {<<c, d, e>> : c \in CallSingles, d \in CallSingles, e \in CallSingles} :
        RawCount(r) <= MaxCallItems}

\* string[] arguments: newItems of addItems, itemsToRemove of removeItems
CallPhrases == {<<>>} \cup CallTextSeqs

\* newText of editItem: any string, the empty one included
CallNewTexts == CallTexts \cup {<<>>}

InitCall ==
    /\ categories \in {<<>>} \cup {Structured(r, 1) : r \in CallReplies}
                             \cup {FirstToggled(Structured(r, 1)) : r \in CallReplies}
    /\ nextId = ItemCount(categories) + 1
    /\ last = NoOp
    /\ AppIdle

NoArgs == NoOp.args

\* the call, recorded with its arguments
Call(op, result, args) ==
    /\ last.op = "none"
    /\ Apply(op, result, [NoOp EXCEPT !.args = args])

CallAddItems ==
    \E texts \in CallPhrases :
        /\ Call("addItems", addItems(categories, texts, nextId),
                [NoArgs EXCEPT !.texts = texts])
        /\ nextId' = nextId + Len(texts)

CallRemoveItems ==
    \E phrases \in CallPhrases :
        /\ Call("removeItems", removeItems(categories, phrases),
                [NoArgs EXCEPT !.texts = phrases])
        /\ UNCHANGED nextId

\* handleRemoveItemsByText of the remote App: what it hands to setChecklistData
CallRemoveByText ==
    \E phrases \in CallTextSeqs :
        /\ Call("removeByText", RemoveByText(categories, phrases),
                [NoArgs EXCEPT !.texts = phrases])
        /\ UNCHANGED nextId

CallToggleItem ==
    \E c \in CallNames, i \in Ids :
        /\ Call("toggleItem", toggleItem(categories, c, i),
                [NoArgs EXCEPT !.cat = c, !.id = i])
        /\ UNCHANGED nextId

CallEditItem ==
    \E c \in CallNames, i \in Ids, t \in CallNewTexts :
        /\ Call("editItem", editItem(categories, c, i, t),
                [NoArgs EXCEPT !.cat = c, !.id = i, !.texts = <<t>>])
        /\ UNCHANGED nextId

CallDeleteItem ==
    \E c \in CallNames, i \in Ids :
        /\ Call("deleteItem", deleteItem(categories, c, i),
                [NoArgs EXCEPT !.cat = c, !.id = i])
        /\ UNCHANGED nextId

CallDeleteCategory ==
    \E c \in CallNames :
        /\ Call("deleteCategory", deleteCategory(categories, c),
                [NoArgs EXCEPT !.cat = c])
        /\ UNCHANGED nextId

CallMoveItem ==
    \E i \in Ids, s \in CallNames, d \in CallNames :
        /\ Call("moveItem", moveItem(categories, i, s, d),
                [NoArgs EXCEPT !.cat = s, !.id = i, !.dest = d])
        /\ UNCHANGED nextId

\* handleMoveItem of the remote App: the checklist it leaves (what it sets, or
\* the one it had when it returns early)
CallHandleMoveItem ==
    \E i \in Ids, s \in CallNames, d \in CallNames :
        /\ Call("handleMoveItem", MovedChecklist(categories, i, s, d).data,
                [NoArgs EXCEPT !.cat = s, !.id = i, !.dest = d])
        /\ UNCHANGED nextId

NextCall ==
    \/ CallAddItems
    \/ CallRemoveItems
    \/ CallRemoveByText
    \/ CallToggleItem
    \/ CallEditItem
    \/ CallDeleteItem
    \/ CallDeleteCategory
    \/ CallMoveItem
    \/ CallHandleMoveItem

SpecCall == InitCall /\ [][NextCall]_vars

----------------------------------------------------------------------------
(* Properties of the engine *)

\* the ids of a checklist's items, in order
IdsOf(cs) == LET f == Flatten(cs) IN [k \in 1..Len(f) |-> f[k].id]

NoDuplicates(s) == \A i, j \in 1..Len(s) : i # j => s[i] # s[j]

\* C1: starting from a checklist without empty categories, after any sequence
\* of engine operations called with arbitrary arguments, no category of the
\* checklist has an empty item sequence.
C1_NoEmptyCategory ==
    \A i \in 1..Len(categories) : Len(categories[i].items) > 0

\* a move that emptied its source category, which was dropped
C1_Witness ==
    /\ last.op = "moveItem"
    /\ Len(last.after) < Len(last.before)
    /\ ItemCount(last.after) = ItemCount(last.before)

\* C2: with every generated id fresh, no operation of the engine yields a
\* checklist in which two items share an id.
C2_UniqueIds == NoDuplicates(IdsOf(categories))

\* C3: moveItem never changes the total number of items of the checklist.
C3_MoveConserves ==
    last.op = "moveItem" => ItemCount(last.after) = ItemCount(last.before)

----------------------------------------------------------------------------
(* Properties of mergeCategories *)

IsMerge == last.op \in {"mergeCategories", "mergeCopy"}

NamesOf(cs) == [i \in 1..Len(cs) |-> cs[i].category]
NormNamesOf(cs) == [i \in 1..Len(cs) |-> Norm(cs[i].category)]

\* non-empty categories, unique item ids, category names distinct as exact strings
WellFormed(cs) ==
    /\ \A i \in 1..Len(cs) : Len(cs[i].items) > 0
    /\ NoDuplicates(IdsOf(cs))
    /\ NoDuplicates(NamesOf(cs))

IsPrefix(s, t) == Len(s) <= Len(t) /\ \A k \in 1..Len(s) : t[k] = s[k]

\* C4 as stated: for every well-formed X (category names distinct as exact
\* strings), merging X with an identical copy of itself yields a checklist
\* with the item count of X.
C4_Original ==
    (last.op = "mergeCopy" /\ WellFormed(last.before))
        => ItemCount(last.after) = ItemCount(last.before)

\* C4 amended: for every well-formed X whose category names are distinct after
\* lower-casing and trimming, merging X with an identical copy of itself
\* yields a checklist with the item count of X.
C4_MergeIdempotent ==
    (last.op = "mergeCopy" /\ WellFormed(last.before)
                           /\ NoDuplicates(NormNamesOf(last.before)))
        => ItemCount(last.after) = ItemCount(last.before)

\* a two-category checklist merged with its copy, every incoming item suppressed
C4_Witness ==
    /\ last.op = "mergeCopy"
    /\ WellFormed(last.before)
    /\ NoDuplicates(NormNamesOf(last.before))
    /\ Len(last.before) = 2
    /\ ItemCount(last.incoming) = 2
    /\ last.after = last.before

\* C5: mergeCategories keeps every category of existing at its position with
\* its name, and the items it had form a prefix of its items in the result,
\* with unchanged id, text and completed.
C5_AppendOnly ==
    IsMerge =>
        /\ Len(last.after) >= Len(last.before)
        /\ \A i \in 1..Len(last.before) :
              /\ last.after[i].category = last.before[i].category
              /\ IsPrefix(last.before[i].items, last.after[i].items)

\* an incoming item was appended to an existing category holding a completed item
C5_Witness ==
    /\ last.op = "mergeCategories"
    /\ \E i \in 1..Len(last.before) :
          /\ Len(last.after[i].items) > Len(last.before[i].items)
          /\ last.before[i].items[1].completed

\* C6: in a merge into a non-empty existing checklist, no item appended to an
\* existing category has the normalized text of another item of that category.
C6_NoDuplicateAppended ==
    (last.op = "mergeCategories" /\ Len(last.before) > 0) =>
        \A i \in 1..Len(last.before) :
            \A k, m \in 1..Len(last.after[i].items) :
                (k < m /\ m > Len(last.before[i].items))
                    => Norm(last.after[i].items[k].text) # Norm(last.after[i].items[m].text)

\* C7: mergeCategories leaves the incoming checklist as it was.
C7_IncomingUntouched ==
    IsMerge => last.incomingAfter = last.incoming

----------------------------------------------------------------------------
(* Properties of the Apps *)

\* C8: in the App that persists through saveChecklist, when the save of a
\* mutated checklist fails and no other event came between the mutation and
\* the failure, the checklist is back at the value it had before the mutation
\* and an error message is shown, whichever handler made the mutation.
C8_Rollback ==
    (app = "remote" /\ last.op = "saveFailed" /\ last.clean)
        => (last.restored /\ error # "null")

\* C9: as long as every save has succeeded, the checklist is the one obtained
\* by applying the handled mutations in dispatch order, each to the value
\* current at its event: no handler or confirmation callback has computed
\* from an older snapshot.
C9_InOrder == ~saveFailed => categories = ideal

\* C11: when a command with intent ADD or REMOVE and no items has been routed,
\* the checklist is what it was, no confirmation dialog is open and the "be more
\* specific" message is shown.
C11_BeSpecific ==
    (last.op = "submission" /\ last.noItems)
        => (last.unchanged /\ ~modalState.isOpen /\ error = "specific")

\* C12: handling a REMOVE or a CLEAR command, a delete request from the
\* checklist, or a cancel of the dialog leaves the checklist as it was: the
\* checklist changes only on the dialog's confirm.
C12_ConfirmFirst ==
    [][(\/ (last'.op = "submission" /\ last'.intent \in {"REMOVE", "CLEAR"})
        \/ last'.op \in {"request", "cancel"})
         => categories' = categories]_vars

----------------------------------------------------------------------------
(* Properties of a single call *)

Called(op) == last.op = op

\* C13: removing by phrase removes an item exactly when its text, lower-cased
\* and trimmed, equals some phrase, lower-cased and trimmed (a text that only
\* contains a phrase stays); the items kept are the same items in the same order.
C13_ExactMatch ==
    (Called("removeItems") \/ Called("removeByText")) =>
        LET phrases == last.args.texts
            Kept(item) == \A k \in 1..Len(phrases) : Norm(item.text) # Norm(phrases[k])
        IN  Flatten(last.after) = SelectSeq(Flatten(last.before), Kept)

\* positions of the categories addItems takes for "uncategorized"
Uncats(cs) == {i \in 1..Len(cs) : ToLowerCase(cs[i].category) = uncategorized}

\* position of the category the new items belong in
Target(cs) ==
    IF Uncats(cs) = {} THEN Len(cs) + 1
    ELSE CHOOSE i \in Uncats(cs) : \A j \in Uncats(cs) : i <= j

\* C14: addItems with a non-empty text sequence changes one category only: the
\* first existing one whose name is 'uncategorized' in any letter case, and then
\* no category is created; otherwise a new category named exactly
\* 'Uncategorized' at the end.  With no text the result equals the input.
C14_TargetCategory ==
    Called("addItems") =>
        LET before == last.before
            after  == last.after
            t      == Target(before)
        IN  IF last.args.texts = <<>> THEN after = before
            ELSE /\ Len(after) = (IF Uncats(before) = {} THEN Len(before) + 1 ELSE Len(before))
                 /\ \A i \in 1..Len(before) : i # t => after[i] = before[i]
                 /\ after[t].category =
                        (IF Uncats(before) = {} THEN Uncategorized ELSE before[t].category)
                 /\ Len(after[t].items) > 0
                 /\ ItemCount(after) > ItemCount(before)

\* addItems met a category named in another letter case, after another category
C14_Witness ==
    /\ Called("addItems") /\ last.args.texts # <<>>
    /\ Len(last.before) = 2 /\ Target(last.before) = 2
    /\ last.before[2].category = uncategorized
    /\ Len(last.after) = 2
    /\ Len(last.after[2].items) > Len(last.before[2].items)

\* C15: addItems adds exactly one item per text, duplicates included, after the
\* items the target category had, in input order and not completed, under ids
\* not in use; every item and category there was is unchanged.
C15_AppendsAll ==
    Called("addItems") =>
        LET before == last.before
            after  == last.after
            texts  == last.args.texts
            t      == Target(before)
            had    == IF t <= Len(before) THEN before[t].items ELSE <<>>
        IN  /\ ItemCount(after) = ItemCount(before) + Len(texts)
            /\ texts # <<>> =>
                  /\ Len(after[t].items) = Len(had) + Len(texts)
                  /\ SubSeq(after[t].items, 1, Len(had)) = had
                  /\ \A k \in 1..Len(texts) :
                        LET item == after[t].items[Len(had) + k]
                        IN  /\ item.text = texts[k]
                            /\ item.completed = FALSE
                            /\ \A j \in 1..Len(Flatten(before)) :
                                   Flatten(before)[j].id # item.id
            /\ \A i \in 1..Len(before) : i # t => after[i] = before[i]

\* addItems was given a text twice, and one the target category already had
C15_Witness ==
    /\ Called("addItems") /\ Len(last.args.texts) = 2
    /\ last.args.texts[1] = last.args.texts[2]
    /\ Target(last.before) <= Len(last.before)
    /\ \E k \in 1..Len(last.before[Target(last.before)].items) :
          last.before[Target(last.before)].items[k].text = last.args.texts[1]
    /\ ItemCount(last.after) = ItemCount(last.before) + 2

\* position of the first category of cs with the given name, 0 if there is none
FirstNamed(cs, name) ==
    IF \E i \in 1..Len(cs) : cs[i].category = name
    THEN CHOOSE i \in 1..Len(cs) :
             cs[i].category = name /\ \A j \in 1..(i - 1) : cs[j].category # name
    ELSE 0

\* whether a category holds an item with the given id
Holds(c, id) == \E k \in 1..Len(c.items) : c.items[k].id = id

C17_MoveRelocates ==
    Called("moveItem") =>
        LET before == last.before
            after  == last.after
            id  == last.args.id
            src == FirstNamed(before, last.args.cat)
            dst == FirstNamed(before, last.args.dest)
            hit == /\ last.args.cat # last.args.dest
                   /\ src > 0 /\ dst > 0
                   /\ Holds(before[src], id)
            item == before[src].items[
                        CHOOSE k \in 1..Len(before[src].items) : before[src].items[k].id = id]
            NotIt(i) == i.id # id
            left == SelectSeq(before[src].items, NotIt)
            Pos(i) == IF left = <<>> /\ i > src THEN i - 1 ELSE i
        IN  hit =>
              /\ Len(after) = (IF left = <<>> THEN Len(before) - 1 ELSE Len(before))
              /\ \A i \in 1..Len(before) :
                    CASE i = src -> left # <<>> =>
                                      after[i] = [before[i] EXCEPT !.items = left]
                      [] i = dst -> after[Pos(i)] =
                                      [before[i] EXCEPT !.items = Append(@, item)]
                      [] OTHER   -> after[Pos(i)] = before[i]

\* the call named a category and an id such that some category of that name
\* holds an item with that id
Addressed(cs) ==
    \E i \in 1..Len(cs) : cs[i].category = last.args.cat /\ Holds(cs[i], last.args.id)

\* C18: toggleItem, editItem and deleteItem called with a category name no
\* category has, or with an id that no category of that name holds (even if
\* another category holds it), and deleteCategory called with a name no
\* category has, return a checklist equal to the input.
C18_MissNoOp ==
    /\ (Called("toggleItem") \/ Called("editItem") \/ Called("deleteItem"))
          => (~Addressed(last.before) => last.after = last.before)
    /\ Called("deleteCategory")
          => (FirstNamed(last.before, last.args.cat) = 0 => last.after = last.before)

\* deleteItem was called with the id of an item of another category
C18_Witness ==
    /\ Called("deleteItem") /\ ~Addressed(last.before)
    /\ FirstNamed(last.before, last.args.cat) > 0
    /\ \E i \in 1..Len(last.before) : Holds(last.before[i], last.args.id)
    /\ last.after = last.before

\* the item of a flattened checklist the call addressed, at position j
IsAddressed(cs, j) ==
    \E i \in 1..Len(cs) :
        /\ cs[i].category = last.args.cat
        /\ \E k \in 1..Len(cs[i].items) :
              /\ cs[i].items[k].id = last.args.id
              /\ j = ItemCount(SubSeq(cs, 1, i - 1)) + k

\* the categories of a checklist with the items left out: names and sizes, in order
Shape(cs) == [i \in 1..Len(cs) |-> <<cs[i].category, Len(cs[i].items)>>]

\* C19: toggleItem on an existing (category, id) flips completed on that item and
\* on no other; ids, texts, the order of items and of categories, and the
\* number of categories are as before.
C19_ToggleFlipsOne ==
    (Called("toggleItem") /\ Addressed(last.before)) =>
        LET was == Flatten(last.before)
            is  == Flatten(last.after)
        IN  /\ Shape(last.after) = Shape(last.before)
            /\ \A j \in 1..Len(was) :
                  is[j] = IF IsAddressed(last.before, j)
                          THEN [was[j] EXCEPT !.completed = ~was[j].completed]
                          ELSE was[j]
            /\ Cardinality({j \in 1..Len(was) : is[j] # was[j]}) = 1

\* a completed item was toggled back
C19_Witness ==
    /\ Called("toggleItem") /\ Addressed(last.before)
    /\ \E j \in 1..Len(Flatten(last.before)) :
          /\ IsAddressed(last.before, j)
          /\ Flatten(last.before)[j].completed
          /\ ~Flatten(last.after)[j].completed
    /\ Len(Flatten(last.before)) > 1

\* C20: editItem on an existing (category, id) sets the text of that item to
\* newText as given, untrimmed and possibly empty; its id, completed and
\* position, and every other item and category, are as before.
C20_EditVerbatim ==
    (Called("editItem") /\ Addressed(last.before)) =>
        LET was == Flatten(last.before)
            is  == Flatten(last.after)
        IN  /\ Shape(last.after) = Shape(last.before)
            /\ \A j \in 1..Len(was) :
                  is[j] = IF IsAddressed(last.before, j)
                          THEN [was[j] EXCEPT !.text = last.args.texts[1]]
                          ELSE was[j]

\* an item was given a text with trailing white space
C20_Witness ==
    /\ Called("editItem") /\ Addressed(last.before)
    /\ last.args.texts = <<EggSp>>
    /\ \E j \in 1..Len(Flatten(last.after)) :
          /\ IsAddressed(last.before, j)
          /\ Flatten(last.before)[j].text # EggSp
          /\ Flatten(last.after)[j].text = EggSp

\* C21: deleteItem on an existing (category, id) takes exactly one item out of
\* the checklist, the addressed one, and drops its category exactly when that
\* was its last item; deleteCategory takes out the categories of the given name
\* with all their items; every other item and category stays as it was, in order.
C21_DeletesAddressed ==
    /\ (Called("deleteItem") /\ Addressed(last.before)) =>
          LET before == last.before
              after  == last.after
              i == CHOOSE i \in 1..Len(before) :
                       before[i].category = last.args.cat /\ Holds(before[i], last.args.id)
              k == CHOOSE k \in 1..Len(before[i].items) : before[i].items[k].id = last.args.id
              left == Without(before[i].items, k)
          IN  /\ ItemCount(after) = ItemCount(before) - 1
              /\ (Len(after) < Len(before)) <=> (Len(before[i].items) = 1)
              /\ after = IF left = <<>> THEN Without(before, i)
                         ELSE [before EXCEPT ![i].items = left]
    /\ Called("deleteCategory") =>
          LET before == last.before
              after  == last.after
              kept == {i \in 1..Len(before) : before[i].category # last.args.cat}
          IN  /\ Len(after) = Cardinality(kept)
              /\ \A i \in kept :
                    after[Cardinality({j \in kept : j <= i})] = before[i]

\* deleteItem took the only item of the first of two categories, which was dropped
C21_Witness ==
    /\ Called("deleteItem") /\ Addressed(last.before)
    /\ Len(last.before) = 2
    /\ Holds(last.before[1], last.args.id)
    /\ last.after = <<last.before[2]>>

----------------------------------------------------------------------------
(* Properties of a submission *)

\* the generation service was asked (for a text or for a URL) and returned the
\* empty checklist
EmptyGeneration ==
    /\ last.op = "submission"
    /\ last.path \in {"generate", "url"}
    /\ last.reply = <<>>

\* C22: when the generation service has returned the empty checklist, for a text
\* or for a URL, the checklist is what it was and an error message is shown.
C22_EmptyGeneration ==
    EmptyGeneration => (last.unchanged /\ error \in {"extract", "url"})

\* the App that merges got the empty checklist while it held a non-empty one
C22_Witness ==
    /\ EmptyGeneration /\ last.path = "generate"
    /\ app = "remote"
    /\ Len(categories) > 0
    /\ last.unchanged /\ error = "extract"

\* C26: in the App that persists through saveChecklist, when a save made by a
\* handler that rolls back is the first to fail, and its failure leaves no save
\* outstanding, the checklist in memory equals the content of the durable
\* store: a later mutation whose save succeeded is not discarded.
C26_MemoryIsStore ==
    [][(/\ app = "remote"
        /\ ~saveFailed /\ saveFailed'
        /\ last'.path # "add"
        /\ saves' = <<>>)
         => categories' = stored']_vars

\* C27: a submission handled as ADD, as UNKNOWN or as a generation from a text
\* or a URL leaves in the checklist every item that was in it: only REMOVE and
\* CLEAR take items out.
C27_SubmitKeepsItems ==
    (last.op = "submission" /\ last.intent \notin {"REMOVE", "CLEAR"}) => last.kept

----------------------------------------------------------------------------
(* Properties of a run of merges and additions *)

\* C28: from a non-empty checklist whose category names differ after
\* lower-casing and trimming, every sequence of mergeCategories and addItems
\* calls yields a checklist whose names differ in the same way, and each call
\* leaves every category there was at its position under its name.
C28_NamesStayUnique ==
    /\ NoDuplicates(NormNamesOf(categories))
    /\ last.op \in {"mergeCategories", "addItems"} =>
          /\ Len(last.after) >= Len(last.before)
          /\ \A i \in 1..Len(last.before) : last.after[i].category = last.before[i].category

----------------------------------------------------------------------------
(* Properties of processCommand *)

\* a Command: an intent of the four and a sequence of items
IsCommand(v) ==
    /\ v.type = "object"
    /\ v.intent.type = "string"
    /\ v.intent.str \in {"ADD", "REMOVE", "CLEAR", "UNKNOWN"}
    /\ v.items.type = "array"

\* C23: processCommand never throws; what it returns is a Command, and it is
\* {intent: UNKNOWN, items: []} whenever the model call failed, its text was
\* not JSON, or the JSON was not a Command.
C23_NeverThrows ==
    last.op = "processCommand" =>
        /\ ~last.command.threw
        /\ IsCommand(last.command.value)
        /\ (sub[1].response.kind # "json" \/ ~IsCommand(sub[1].response.value))
               => last.command.value = UnknownCommand

\* the model call was rejected and processCommand returned the UNKNOWN command
C23_Witness ==
    /\ last.op = "processCommand"
    /\ sub[1].response.kind = "rejects"
    /\ ~last.command.threw
    /\ last.command.value = UnknownCommand

----------------------------------------------------------------------------
(* Properties of loading and saving *)

\* nothing usable is stored: no entry, an empty text, or a text that does not parse
NothingUsable == ~stored.present \/ stored.text = <<>> \/ JsonParse(stored.text).threw

\* C24: the load at start-up never takes the App down, and it leaves the empty
\* checklist when nothing is stored, when the stored text does not parse and
\* when the store cannot be read.
C24_LoadDegrades ==
    last.op = "load" =>
        /\ error # "crash"
        /\ (NothingUsable \/ last.path = "unreadable") => categories = <<>>

\* the local App started on a text cut short
C24_Witness ==
    /\ last.op = "load" /\ app = "local" /\ last.path = "read"
    /\ stored.present /\ Len(stored.text) > 1
    /\ JsonParse(stored.text).threw
    /\ categories = <<>> /\ error = "null"

\* C25: when the save effect has written the checklist and the page is opened
\* again, the checklist loaded equals the one saved: the same categories in
\* order, the same items with their id, text and completed.
C25_RoundTrip ==
    (last.op = "reload" /\ last.clean /\ last.path = "read") => categories = last.before

\* a checklist with a completed item and a text holding a quote came back
C25_Witness ==
    /\ last.op = "reload" /\ last.clean /\ last.path = "read"
    /\ Len(categories) = 2
    /\ categories[1].items[1].completed
    /\ categories[2].items[1].text = Quoted
    /\ categories = last.before

----------------------------------------------------------------------------
(* Properties of the form                                                    *)

\* C29: isLoading is true exactly while a submission is in flight, and at most
\* one submission is in flight at any time: a submit event that arrives while
\* isLoading is true starts no second request
C29_OneSubmission ==
    /\ Len(sub) <= 1
    /\ isLoading <=> Len(sub) > 0

====
